---- MODULE Spec2Model ----
(***************************************************************************)
(* Control plane of the taxi simulator (taxi_simulator/simulator.py):      *)
(* Simulator.__init__, is_simulation_finished, time_is_out, run,           *)
(* process_queue, stop, collect_stats, print_stats and the FlaskBackend    *)
(* listener that feeds the command queue.                                  *)
(*                                                                         *)
(* The controller is one sequential process whose position is pc.  The     *)
(* listener's request handlers, the XMPP server thread and the coordinator *)
(* run concurrently with it and interleave with its steps.                 *)
(***************************************************************************)
EXTENDS Integers, Sequences, FiniteSets, TLC

\* ---------------------------------------------------------------- bounds
\* Commands the listener accepts during one run.
MaxCmds == 2
\* The coordinator's clock is followed up to this elapsed time.
MaxSimTime == 1
\* Calls of stop() the driver makes on one controller.
MaxStops == 2

\* ---------------------------------------------------------------- inputs
\* config.max_time: None is the empty set, a configured bound T is {T}.
NoMaxTime == {}
MaxTimes == {NoMaxTime, {0}}
\* (config.num_taxis, config.num_passengers)
InitialFleets == {<<3, 5>>}
\* (ntaxis, npassengers) path parameters of /generate requests.
Commands == {<<2, 1>>, <<0, 3>>}
\* Raw text of the two path segments of a /generate request, one character per
\* element: "2", "10", "-1", "1.5", "x" and the empty segment.
Segments == {<<"2">>, <<"1", "0">>, <<"-", "1">>, <<"1", ".", "5">>, <<"x">>, <<>>}
\* Agents a scenario file contributes: (taxis, passengers).
ScenarioFleet == <<1, 1>>

VARIABLES
    config,              \* SimulationConfig: max_time, num_taxis, num_passengers, scenario
    pc,                  \* position of the controller
    cfg_files,           \* spade.xml and xmppd.xml exist
    user_db,             \* "stale" or "reset"
    xmpp_server,         \* "none", "created", "running", "dead", "shutdown"
    platform,            \* "none", "running", "shutdown"
    coordinator_agent,   \* "none", "created", "running", "stopped"
    route_agent,         \* "none", "running", "stopped"
    web_backend_process, \* "none", "running", "terminated"
    boot_log,            \* bootstrap steps begun so far, in order
    boot_failed,         \* bootstrap steps that failed
    command_queue,       \* the SimpleQueue: commands not yet taken
    enqueued,            \* history: every command put, in put order
    http_status,         \* status of the listener's last response, "none" before any
    applied,             \* history: every command taken by process_queue, in order
    cur,                 \* process_queue(): <<(ntaxis, npassengers)>> it holds, else <<>>
    factory_calls,       \* history: Scenario.create_agents_batch calls (kind, count)
    taxis,               \* taxi agents registered with the coordinator
    passengers,          \* passenger agents registered with the coordinator
    agents_stopped,      \* coordinator.stop_agents() took effect
    sim_started,         \* coordinator.run_simulation() was called
    sim_time,            \* coordinator.get_simulation_time()
    coord_finished,      \* coordinator.is_simulation_finished()
    ret,                 \* value the call that just ended returned, "none" once taken
    simulation_time,     \* self.simulation_time
    df_avg,              \* self.df_avg: {} is None, {row} a snapshot
    out_file,            \* the report file: {} if none was written, else {[format, row]}
    si,                  \* stop(): index of the teardown step to do next
    stop_calls,          \* calls of stop() so far
    stopped,             \* a call of stop() ran to its end
    trace,               \* teardown steps begun by the current (or last) call of stop()
    done,                \* per teardown step: times it was carried out
    raised               \* the step whose failure ended the last call, or "none"

vars == <<config, pc, cfg_files, user_db, xmpp_server, platform, coordinator_agent,
          route_agent, web_backend_process, boot_log, boot_failed, command_queue,
          enqueued, http_status, applied, cur, factory_calls, taxis, passengers, agents_stopped,
          sim_started, sim_time, coord_finished, ret, simulation_time, df_avg,
          out_file, si, stop_calls, stopped, trace, done, raised>>

infra == <<cfg_files, user_db, xmpp_server, platform, coordinator_agent, route_agent,
           web_backend_process>>
boot == <<boot_log, boot_failed>>
chan == <<command_queue, enqueued, http_status>>
fleet == <<applied, cur, factory_calls, taxis, passengers>>
coord == <<agents_stopped, sim_started, sim_time, coord_finished>>
stats == <<simulation_time, df_avg, out_file>>
stopv == <<si, stop_calls, stopped, trace, done, raised>>

\* ------------------------------------------------------------- teardown
\* Variant of stop() that stops the coordinator before it prints the stats.
TeardownOrderStatsLate ==
    <<"terminate", "stop_agents", "route_stop", "coord_stop", "print_stats",
      "platform_shutdown", "xmpp_shutdown">>

\* The teardown calls of stop(), in the order the method makes them.
TeardownOrder ==
    <<"terminate", "stop_agents", "print_stats", "route_stop", "coord_stop",
      "platform_shutdown", "xmpp_shutdown">>

TeardownSteps == {TeardownOrder[i] : i \in 1..Len(TeardownOrder)}

\* ------------------------------------------------------------------ Init
Init ==
    /\ config \in [max_time : MaxTimes, fleet : InitialFleets, scenario : BOOLEAN]
    /\ pc = "config"
    /\ cfg_files \in BOOLEAN
    /\ user_db = "stale"
    /\ xmpp_server = "none"
    /\ platform = "none"
    /\ coordinator_agent = "none"
    /\ route_agent = "none"
    /\ web_backend_process = "none"
    /\ boot_log = <<>>
    /\ boot_failed = {}
    /\ command_queue = <<>>
    /\ enqueued = <<>>
    /\ http_status = "none"
    /\ applied = <<>>
    /\ cur = <<>>
    /\ factory_calls = <<>>
    /\ taxis = 0
    /\ passengers = 0
    /\ agents_stopped = FALSE
    /\ sim_started = FALSE
    /\ sim_time = 0
    /\ coord_finished = FALSE
    /\ ret = "none"
    /\ simulation_time = 0
    /\ df_avg = {}
    /\ out_file = {}
    /\ si = 0
    /\ stop_calls = 0
    /\ stopped = FALSE
    /\ trace = <<>>
    /\ done = [s \in TeardownSteps |-> 0]
    /\ raised = "none"

\* ---------------------------------------------------------- construction
\* A bootstrap step begins: __init__ reaches its statement.
Begin(step) == boot_log' = Append(boot_log, step)

\* An exception leaves __init__: no later statement runs, no object is returned,
\* nothing that was started is stopped.
Abort(step) ==
    /\ Begin(step)
    /\ boot_failed' = boot_failed \cup {step}
    /\ pc' = "aborted"

\* Scenario.create_agents_batch(kind, n, coordinator): n agents of that kind are
\* created and registered with the coordinator.
CreateAgentsBatch(count, n) == count + n

\* if not os.path.exists("spade.xml") or not os.path.exists("xmppd.xml"): skipped
ConfigPresent ==
    /\ pc = "config" /\ cfg_files
    /\ Begin("config")
    /\ pc' = "user_db"
    /\ UNCHANGED <<config, infra, boot_failed, chan, fleet, coord, ret, stats, stopv>>

\* os.system("configure.py 127.0.0.1") exits with status 0
ConfigGenerated ==
    /\ pc = "config" /\ ~cfg_files
    /\ Begin("config")
    /\ cfg_files' = TRUE
    /\ pc' = "user_db"
    /\ UNCHANGED <<config, user_db, xmpp_server, platform, coordinator_agent, route_agent,
                   web_backend_process, boot_failed, chan, fleet, coord, ret, stats,
                   stopv>>

\* os.system returns a non-zero status, which __init__ does not look at
ConfigFailed ==
    /\ pc = "config" /\ ~cfg_files
    /\ Begin("config")
    /\ boot_failed' = boot_failed \cup {"config"}
    /\ pc' = "user_db"
    /\ UNCHANGED <<config, infra, chan, fleet, coord, ret, stats, stopv>>

\* with open("user_db.xml", 'w') as f: pickle.dump(...)
ResetUserDb ==
    /\ pc = "user_db"
    /\ Begin("user_db")
    /\ user_db' = "reset"
    /\ pc' = "xmpp_server"
    /\ UNCHANGED <<config, cfg_files, xmpp_server, platform, coordinator_agent, route_agent,
                   web_backend_process, boot_failed, chan, fleet, coord, ret, stats,
                   stopv>>

ResetUserDbRaises ==
    /\ pc = "user_db"
    /\ Abort("user_db")
    /\ UNCHANGED <<config, infra, chan, fleet, coord, ret, stats, stopv>>

\* Server(cfgfile=...) and thread.start_new_thread(self.xmpp_server.run, tuple())
XmppStart ==
    /\ pc = "xmpp_server"
    /\ Begin("xmpp_server")
    /\ xmpp_server' = "running"
    /\ pc' = "platform"
    /\ UNCHANGED <<config, cfg_files, user_db, platform, coordinator_agent, route_agent,
                   web_backend_process, boot_failed, chan, fleet, coord, ret, stats,
                   stopv>>

\* Server(...) or start_new_thread raises in the constructing thread
XmppStartRaises ==
    /\ pc = "xmpp_server"
    /\ Abort("xmpp_server")
    /\ UNCHANGED <<config, infra, chan, fleet, coord, ret, stats, stopv>>

\* xmpp_server.run fails inside the new thread: the exception ends that thread
\* only, and __init__ goes on
XmppRunFails ==
    /\ pc = "xmpp_server"
    /\ Begin("xmpp_server")
    /\ xmpp_server' = "dead"
    /\ boot_failed' = boot_failed \cup {"xmpp_server"}
    /\ pc' = "platform"
    /\ UNCHANGED <<config, cfg_files, user_db, platform, coordinator_agent, route_agent,
                   web_backend_process, chan, fleet, coord, ret, stats, stopv>>

\* spade_backend.SpadeBackend(...); self.platform.start()
PlatformStart ==
    /\ pc = "platform"
    /\ Begin("platform")
    /\ platform' = "running"
    /\ pc' = "coordinator"
    /\ UNCHANGED <<config, cfg_files, user_db, xmpp_server, coordinator_agent, route_agent,
                   web_backend_process, boot_failed, chan, fleet, coord, ret, stats,
                   stopv>>

PlatformStartRaises ==
    /\ pc = "platform"
    /\ Abort("platform")
    /\ UNCHANGED <<config, infra, chan, fleet, coord, ret, stats, stopv>>

\* CoordinatorAgent(...); set_strategies(...); start()
CoordinatorStart ==
    /\ pc = "coordinator"
    /\ Begin("coordinator")
    /\ coordinator_agent' = "running"
    /\ pc' = "route"
    /\ UNCHANGED <<config, cfg_files, user_db, xmpp_server, platform, route_agent,
                   web_backend_process, boot_failed, chan, fleet, coord, ret, stats,
                   stopv>>

CoordinatorStartRaises ==
    /\ pc = "coordinator"
    /\ Abort("coordinator")
    /\ UNCHANGED <<config, infra, chan, fleet, coord, ret, stats, stopv>>

\* Variant of the route step after which the listener is started at once, the
\* initial batch left out.
RouteStartThenListener ==
    /\ pc = "route"
    /\ Begin("route")
    /\ route_agent' = "running"
    /\ pc' = "listener"
    /\ UNCHANGED <<config, cfg_files, user_db, xmpp_server, platform, coordinator_agent,
                   web_backend_process, boot_failed, chan, fleet, coord, ret, stats,
                   stopv>>

\* RouteAgent(...); start()
RouteStart ==
    /\ pc = "route"
    /\ Begin("route")
    /\ route_agent' = "running"
    /\ pc' = "batch"
    /\ UNCHANGED <<config, cfg_files, user_db, xmpp_server, platform, coordinator_agent,
                   web_backend_process, boot_failed, chan, fleet, coord, ret, stats,
                   stopv>>

RouteStartRaises ==
    /\ pc = "route"
    /\ Abort("route")
    /\ UNCHANGED <<config, infra, chan, fleet, coord, ret, stats, stopv>>

\* Variant of the initial batch that passes num_passengers for both kinds.
CreateInitialAgentsSameCount ==
    /\ pc = "batch"
    /\ Begin("batch")
    /\ factory_calls' = factory_calls \o
           <<(<<"taxi", config.fleet[2]>>), (<<"passenger", config.fleet[2]>>)>>
    /\ taxis' = CreateAgentsBatch(taxis, config.fleet[2])
    /\ passengers' = CreateAgentsBatch(passengers, config.fleet[2])
    /\ pc' = "scenario"
    /\ UNCHANGED <<config, infra, boot_failed, chan, applied, cur, coord, ret, stats,
                   stopv>>

\* Scenario.create_agents_batch("taxi", config.num_taxis, ...)
\* Scenario.create_agents_batch("passenger", config.num_passengers, ...)
CreateInitialAgents ==
    /\ pc = "batch"
    /\ Begin("batch")
    /\ factory_calls' = factory_calls \o
           <<(<<"taxi", config.fleet[1]>>), (<<"passenger", config.fleet[2]>>)>>
    /\ taxis' = CreateAgentsBatch(taxis, config.fleet[1])
    /\ passengers' = CreateAgentsBatch(passengers, config.fleet[2])
    /\ pc' = "scenario"
    /\ UNCHANGED <<config, infra, boot_failed, chan, applied, cur, coord, ret, stats,
                   stopv>>

\* if config.scenario: false
NoScenario ==
    /\ pc = "scenario" /\ ~config.scenario
    /\ Begin("scenario")
    /\ pc' = "listener"
    /\ UNCHANGED <<config, infra, boot_failed, chan, fleet, coord, ret, stats, stopv>>

\* Scenario(config.scenario, ...); add_taxi / add_passenger and start of each agent
LoadScenario ==
    /\ pc = "scenario" /\ config.scenario
    /\ Begin("scenario")
    /\ taxis' = taxis + ScenarioFleet[1]
    /\ passengers' = passengers + ScenarioFleet[2]
    /\ pc' = "listener"
    /\ UNCHANGED <<config, infra, boot_failed, chan, applied, cur, factory_calls, coord,
                   ret, stats, stopv>>

\* Scenario(...) raises: nothing in __init__ catches it
LoadScenarioRaises ==
    /\ pc = "scenario" /\ config.scenario
    /\ Abort("scenario")
    /\ UNCHANGED <<config, infra, chan, fleet, coord, ret, stats, stopv>>

\* Process(None, _worker, ...).start(): the last statement of __init__
StartListener ==
    /\ pc = "listener"
    /\ Begin("listener")
    /\ web_backend_process' = "running"
    /\ pc' = "idle"
    /\ UNCHANGED <<config, cfg_files, user_db, xmpp_server, platform, coordinator_agent,
                   route_agent, boot_failed, chan, fleet, coord, ret, stats, stopv>>

Construct ==
    \/ ConfigPresent \/ ConfigGenerated \/ ConfigFailed
    \/ ResetUserDb \/ ResetUserDbRaises
    \/ XmppStart \/ XmppStartRaises \/ XmppRunFails
    \/ PlatformStart \/ PlatformStartRaises
    \/ CoordinatorStart \/ CoordinatorStartRaises
    \/ RouteStart \/ RouteStartRaises
    \/ CreateInitialAgents
    \/ NoScenario \/ LoadScenario \/ LoadScenarioRaises
    \/ StartListener

\* ------------------------------------------------------------- listener
\* FlaskBackend.generate(ntaxis, npassengers), reached through the route
\* /generate/taxis/<int:ntaxis>/passengers/<int:npassengers>:
\* self.command_queue.put((ntaxis, npassengers)).  SimpleQueue.put sends the item
\* under the queue's write lock, so the puts of handlers that run at the same time
\* take place one after the other, in some order.
generate(c) ==
    /\ web_backend_process = "running"
    /\ Len(enqueued) < MaxCmds
    /\ command_queue' = Append(command_queue, c)
    /\ enqueued' = Append(enqueued, c)
    /\ http_status' = "200"
    /\ UNCHANGED <<config, pc, infra, boot, fleet, coord, ret, stats, stopv>>

\* The <int:...> converter of the route rule: the segment must match \d+, one or
\* more decimal digits and nothing else.
Digits == {"0", "1", "2", "3", "4", "5", "6", "7", "8", "9"}

DigitValue ==
    "0" :> 0 @@ "1" :> 1 @@ "2" :> 2 @@ "3" :> 3 @@ "4" :> 4 @@
    "5" :> 5 @@ "6" :> 6 @@ "7" :> 7 @@ "8" :> 8 @@ "9" :> 9

IntegerConverterSigned(seg) ==
    LET digits == IF seg # <<>> /\ Head(seg) = "-" THEN Tail(seg) ELSE seg
    IN  /\ Len(digits) > 0
        /\ \A i \in 1..Len(digits) : digits[i] \in Digits

IntegerConverter(seg) ==
    /\ Len(seg) > 0
    /\ \A i \in 1..Len(seg) : seg[i] \in Digits

\* int(value) on a matched segment: decimal digits, with an optional sign.
RECURSIVE ParseDigits(_)
ParseDigits(seg) ==
    IF seg = <<>> THEN 0
    ELSE 10 * ParseDigits(SubSeq(seg, 1, Len(seg) - 1)) + DigitValue[seg[Len(seg)]]

to_python(seg) ==
    IF seg # <<>> /\ Head(seg) = "-" THEN 0 - ParseDigits(Tail(seg))
    ELSE ParseDigits(seg)

\* @crossdomain(origin='*') on generate: the decorated view calls generate once
\* with the arguments it was given and adds the cross-origin headers to its
\* response.
crossdomain(c) == generate(c)

\* A request whose path matches the rule is dispatched to the decorated generate
\* with the converted parameters.
Dispatch(a, b) ==
    /\ IntegerConverter(a)
    /\ IntegerConverter(b)
    /\ crossdomain(<<to_python(a), to_python(b)>>)

\* A request whose path matches no rule is answered 404; generate is not called.
NotFound(a, b) ==
    /\ web_backend_process = "running"
    /\ ~(IntegerConverter(a) /\ IntegerConverter(b))
    /\ http_status' = "404"
    /\ UNCHANGED <<config, pc, infra, boot, command_queue, enqueued, fleet, coord, ret,
                   stats, stopv>>

Request == \E a, b \in Segments : Dispatch(a, b) \/ NotFound(a, b)

\* ---------------------------------------------------------- coordinator
\* The coordinator's clock advances while the simulation runs.
Tick ==
    /\ coordinator_agent = "running"
    /\ sim_started
    /\ sim_time < MaxSimTime
    /\ sim_time' = sim_time + 1
    /\ UNCHANGED <<config, pc, infra, boot, chan, fleet, agents_stopped, sim_started,
                   coord_finished, ret, stats, stopv>>

\* The coordinator decides on its own that the simulation is finished.
CoordinatorFinishes ==
    /\ coordinator_agent = "running"
    /\ sim_started
    /\ ~coord_finished
    /\ coord_finished' = TRUE
    /\ UNCHANGED <<config, pc, infra, boot, chan, fleet, agents_stopped, sim_started,
                   sim_time, ret, stats, stopv>>

\* ------------------------------------------------ run, is_simulation_finished
\* run(): self.coordinator_agent.run_simulation()
Run ==
    /\ pc = "idle"
    /\ sim_started' = TRUE
    /\ UNCHANGED <<config, pc, infra, boot, chan, fleet, agents_stopped, sim_time,
                   coord_finished, ret, stats, stopv>>

MaxTimeValue == CHOOSE T \in config.max_time : TRUE

\* Variant of time_is_out() that compares with >=.
time_is_out_inclusive ==
    IF config.max_time = NoMaxTime THEN TRUE ELSE sim_time >= MaxTimeValue

\* time_is_out(): get_simulation_time() > self.config.max_time.  Python 2 orders
\* None below every number.
time_is_out ==
    IF config.max_time = NoMaxTime THEN TRUE ELSE sim_time > MaxTimeValue

\* is_simulation_finished()
is_simulation_finished ==
    IF config.max_time = NoMaxTime
    THEN FALSE
    ELSE time_is_out \/ coord_finished

PyBool(b) == IF b THEN "True" ELSE "False"

\* The driver calls is_simulation_finished().
CallIsSimulationFinished ==
    /\ pc = "idle"
    /\ pc' = "is_simulation_finished"
    /\ UNCHANGED <<config, infra, boot, chan, fleet, coord, ret, stats, stopv>>

\* The call evaluates its body and returns.
IsSimulationFinished ==
    /\ pc = "is_simulation_finished"
    /\ ret' = PyBool(is_simulation_finished)
    /\ pc' = "returned"
    /\ UNCHANGED <<config, infra, boot, chan, fleet, coord, stats, stopv>>

\* The driver takes the returned value.
TakeResult ==
    /\ pc = "returned"
    /\ ret' = "none"
    /\ pc' = "idle"
    /\ UNCHANGED <<config, infra, boot, chan, fleet, coord, stats, stopv>>

\* --------------------------------------------------------- process_queue
\* Variant of the emptiness test that always reports a pending item.
never_empty(q) == FALSE

\* SimpleQueue.empty()
empty(q) == q = <<>>

\* Variant of get() that receives the newest item.
get_newest(q) == [item |-> q[Len(q)], rest |-> SubSeq(q, 1, Len(q) - 1)]

\* SimpleQueue.get(): the item received and what stays in the pipe.
get(q) == [item |-> Head(q), rest |-> Tail(q)]

\* Variant of the unpacking that takes the two counts the other way round.
UnpackSwapped(c) == [ntaxis |-> c[2], npassengers |-> c[1]]

\* ntaxis, npassengers = self.command_queue.get()
Unpack(c) == [ntaxis |-> c[1], npassengers |-> c[2]]

\* The driver calls process_queue().
CallProcessQueue ==
    /\ pc = "idle"
    /\ pc' = "process_queue"
    /\ UNCHANGED <<config, infra, boot, chan, fleet, coord, ret, stats, stopv>>

\* if not self.command_queue.empty(): false, the call returns None
ProcessQueueEmpty ==
    /\ pc = "process_queue"
    /\ empty(command_queue)
    /\ ret' = "None"
    /\ pc' = "returned"
    /\ UNCHANGED <<config, infra, boot, chan, fleet, coord, stats, stopv>>

\* if not self.command_queue.empty(): true
ProcessQueueNotEmpty ==
    /\ pc = "process_queue"
    /\ ~empty(command_queue)
    /\ pc' = "get"
    /\ UNCHANGED <<config, infra, boot, chan, fleet, coord, ret, stats, stopv>>

\* ntaxis, npassengers = self.command_queue.get(): get() waits for an item
ProcessQueueGet ==
    /\ pc = "get"
    /\ command_queue # <<>>
    /\ LET g == get(command_queue)
       IN  /\ command_queue' = g.rest
           /\ applied' = Append(applied, g.item)
           /\ cur' = <<g.item>>
    /\ pc' = "create_taxis"
    /\ UNCHANGED <<config, infra, boot, enqueued, http_status, factory_calls, taxis,
                   passengers, coord,
                   ret, stats, stopv>>

\* Variant of process_queue() that returns once the taxis are created.
ProcessQueueCreateTaxisOnly ==
    /\ pc = "create_taxis"
    /\ LET c == Unpack(cur[1])
       IN  /\ factory_calls' = Append(factory_calls, <<"taxi", c.ntaxis>>)
           /\ taxis' = CreateAgentsBatch(taxis, c.ntaxis)
    /\ cur' = <<>>
    /\ ret' = "None"
    /\ pc' = "returned"
    /\ UNCHANGED <<config, infra, boot, chan, applied, passengers, coord, stats, stopv>>

\* Scenario.create_agents_batch("taxi", ntaxis, self.coordinator_agent)
ProcessQueueCreateTaxis ==
    /\ pc = "create_taxis"
    /\ LET c == Unpack(cur[1])
       IN  /\ factory_calls' = Append(factory_calls, <<"taxi", c.ntaxis>>)
           /\ taxis' = CreateAgentsBatch(taxis, c.ntaxis)
    /\ pc' = "create_passengers"
    /\ UNCHANGED <<config, infra, boot, chan, applied, cur, passengers, coord, ret, stats,
                   stopv>>

\* Scenario.create_agents_batch("passenger", npassengers, self.coordinator_agent);
\* the call returns None
ProcessQueueCreatePassengers ==
    /\ pc = "create_passengers"
    /\ LET c == Unpack(cur[1])
       IN  /\ factory_calls' = Append(factory_calls, <<"passenger", c.npassengers>>)
           /\ passengers' = CreateAgentsBatch(passengers, c.npassengers)
    /\ cur' = <<>>
    /\ ret' = "None"
    /\ pc' = "returned"
    /\ UNCHANGED <<config, infra, boot, chan, applied, taxis, coord, stats, stopv>>

\* ------------------------------------------------------------------ stats
\* collect_stats(): the fleet-summary row built from coordinator.get_stats() and
\* self.simulation_time.
Snapshot == [time |-> simulation_time, finished |-> coord_finished]

\* print_stats(): if self.df_avg is None: self.collect_stats()
StatsForPrint == IF df_avg = {} THEN {Snapshot} ELSE df_avg

\* The driver calls collect_stats().
CollectStats ==
    /\ pc = "idle"
    /\ df_avg' = {Snapshot}
    /\ UNCHANGED <<config, pc, infra, boot, chan, fleet, coord, ret, simulation_time,
                   out_file, stopv>>

\* The driver calls print_stats().
PrintStats ==
    /\ pc = "idle"
    /\ df_avg' = StatsForPrint
    /\ UNCHANGED <<config, pc, infra, boot, chan, fleet, coord, ret, simulation_time,
                   out_file, stopv>>

\* write_file(): if self.df_avg is None: self.collect_stats()
StatsForWrite == IF df_avg = {} THEN {Snapshot} ELSE df_avg

\* The file write_json / write_excel produce from the snapshot df.
Written(format, df) == {[format |-> format, row |-> row] : row \in df}

\* Formats the driver passes to write_file(); "csv" stands for any other string.
FileFormats == {"json", "excel", "csv"}

\* The driver calls get_stats(): return self.df_avg, self.passenger_df, self.taxi_df
GetStats ==
    /\ pc = "idle"
    /\ ret' = IF df_avg = {} THEN "(None, None, None)"
                              ELSE "(df_avg, passenger_df, taxi_df)"
    /\ pc' = "returned"
    /\ UNCHANGED <<config, infra, boot, chan, fleet, coord, stats, stopv>>

\* The driver calls write_file(filename, fileformat).
WriteFile(format) ==
    /\ pc = "idle"
    /\ df_avg' = StatsForWrite
    /\ out_file' = IF format \in {"json", "excel"}
                   THEN Written(format, StatsForWrite)
                   ELSE out_file
    /\ ret' = "None"
    /\ pc' = "returned"
    /\ UNCHANGED <<config, infra, boot, chan, fleet, coord, simulation_time, stopv>>

\* The driver calls write_json(filename) with a snapshot present.
WriteJson ==
    /\ pc = "idle"
    /\ df_avg # {}
    /\ out_file' = Written("json", df_avg)
    /\ ret' = "None"
    /\ pc' = "returned"
    /\ UNCHANGED <<config, infra, boot, chan, fleet, coord, simulation_time, df_avg,
                   stopv>>

\* write_json(filename) with self.df_avg None: self.df_avg.to_json raises
\* AttributeError before the file is opened.
WriteJsonRaises ==
    /\ pc = "idle"
    /\ df_avg = {}
    /\ ret' = "AttributeError"
    /\ pc' = "returned"
    /\ UNCHANGED <<config, infra, boot, chan, fleet, coord, stats, stopv>>

\* The driver calls write_excel(filename) with a snapshot present.
WriteExcel ==
    /\ pc = "idle"
    /\ df_avg # {}
    /\ out_file' = Written("excel", df_avg)
    /\ ret' = "None"
    /\ pc' = "returned"
    /\ UNCHANGED <<config, infra, boot, chan, fleet, coord, simulation_time, df_avg,
                   stopv>>

\* write_excel(filename) with self.df_avg None: self.df_avg.to_excel raises
\* AttributeError; pd.ExcelWriter(filename) was created but never saved.
WriteExcelRaises ==
    /\ pc = "idle"
    /\ df_avg = {}
    /\ ret' = "AttributeError"
    /\ pc' = "returned"
    /\ UNCHANGED <<config, infra, boot, chan, fleet, coord, stats, stopv>>

\* ------------------------------------------------------------------- stop
\* The driver calls stop().
CallStop ==
    /\ pc = "idle"
    /\ stop_calls < MaxStops
    /\ stop_calls' = stop_calls + 1
    /\ pc' = "stop"
    /\ si' = 0
    /\ trace' = <<>>
    /\ raised' = "none"
    /\ UNCHANGED <<config, infra, boot, chan, fleet, coord, ret, stats, stopped, done>>

\* self.simulation_time = self.coordinator_agent.get_simulation_time()
StopReadTime ==
    /\ pc = "stop" /\ si = 0
    /\ simulation_time' = sim_time
    /\ si' = 1
    /\ UNCHANGED <<config, pc, infra, boot, chan, fleet, coord, ret, df_avg, out_file,
                   stop_calls, stopped, trace, done, raised>>

\* stop() is at the teardown call named step.
At(step) == pc = "stop" /\ si \in 1..Len(TeardownOrder) /\ TeardownOrder[si] = step

\* The teardown call returns: stop() goes on to its next statement, or returns
\* after the last one.
Return(step) ==
    /\ trace' = Append(trace, step)
    /\ done' = [done EXCEPT ![step] = @ + 1]
    /\ IF si = Len(TeardownOrder)
       THEN pc' = "idle" /\ si' = 0 /\ stopped' = TRUE
       ELSE pc' = pc /\ si' = si + 1 /\ stopped' = stopped
    /\ UNCHANGED <<stop_calls, raised>>

\* Variant of the terminate step that also throws away what is in the queue.
StopTerminateDiscardsQueue ==
    /\ At("terminate")
    /\ web_backend_process' = "terminated"
    /\ command_queue' = <<>>
    /\ Return("terminate")
    /\ UNCHANGED <<config, cfg_files, user_db, xmpp_server, platform, coordinator_agent,
                   route_agent, boot, enqueued, http_status, fleet, coord, ret,
                   stats>>

\* self.web_backend_process.terminate()
StopTerminate ==
    /\ At("terminate")
    /\ web_backend_process' = "terminated"
    /\ Return("terminate")
    /\ UNCHANGED <<config, cfg_files, user_db, xmpp_server, platform, coordinator_agent,
                   route_agent, boot, chan, fleet, coord, ret, stats>>

\* self.coordinator_agent.stop_agents()
StopAgents ==
    /\ At("stop_agents")
    /\ agents_stopped' = TRUE
    /\ Return("stop_agents")
    /\ UNCHANGED <<config, infra, boot, chan, fleet, sim_started, sim_time, coord_finished,
                   ret, stats>>

\* self.print_stats()
StopPrintStats ==
    /\ At("print_stats")
    /\ df_avg' = StatsForPrint
    /\ Return("print_stats")
    /\ UNCHANGED <<config, infra, boot, chan, fleet, coord, ret, simulation_time,
                   out_file>>

\* self.route_agent.stop()
StopRoute ==
    /\ At("route_stop")
    /\ route_agent' = "stopped"
    /\ Return("route_stop")
    /\ UNCHANGED <<config, cfg_files, user_db, xmpp_server, platform, coordinator_agent,
                   web_backend_process, boot, chan, fleet, coord, ret, stats>>

\* self.coordinator_agent.stop()
StopCoordinator ==
    /\ At("coord_stop")
    /\ coordinator_agent' = "stopped"
    /\ Return("coord_stop")
    /\ UNCHANGED <<config, cfg_files, user_db, xmpp_server, platform, route_agent,
                   web_backend_process, boot, chan, fleet, coord, ret, stats>>

\* self.platform.shutdown()
StopPlatform ==
    /\ At("platform_shutdown")
    /\ platform' = "shutdown"
    /\ Return("platform_shutdown")
    /\ UNCHANGED <<config, cfg_files, user_db, xmpp_server, coordinator_agent, route_agent,
                   web_backend_process, boot, chan, fleet, coord, ret, stats>>

\* self.xmpp_server.shutdown("")
StopXmpp ==
    /\ At("xmpp_shutdown")
    /\ xmpp_server' = "shutdown"
    /\ Return("xmpp_shutdown")
    /\ UNCHANGED <<config, cfg_files, user_db, platform, coordinator_agent, route_agent,
                   web_backend_process, boot, chan, fleet, coord, ret, stats>>

\* A teardown call raises: stop() has no try, the exception leaves it and the
\* statements after the call do not run.
StopStepRaises ==
    /\ pc = "stop" /\ si \in 1..Len(TeardownOrder)
    /\ trace' = Append(trace, TeardownOrder[si])
    /\ raised' = TeardownOrder[si]
    /\ pc' = "idle"
    /\ si' = 0
    /\ UNCHANGED <<config, infra, boot, chan, fleet, coord, ret, stats, stop_calls,
                   stopped, done>>

Stop ==
    \/ CallStop \/ StopReadTime
    \/ StopTerminate \/ StopAgents \/ StopPrintStats \/ StopRoute \/ StopCoordinator
    \/ StopPlatform \/ StopXmpp
    \/ StopStepRaises

\* ------------------------------------------------------------------- Next
Listener == \E c \in Commands : generate(c)

Coordinator == Tick \/ CoordinatorFinishes

Polling ==
    \/ CallIsSimulationFinished \/ IsSimulationFinished
    \/ CallProcessQueue \/ ProcessQueueEmpty \/ ProcessQueueNotEmpty \/ ProcessQueueGet
    \/ ProcessQueueCreateTaxis \/ ProcessQueueCreatePassengers
    \/ TakeResult

Reporting == CollectStats \/ PrintStats

Export ==
    \/ GetStats
    \/ \E format \in FileFormats : WriteFile(format)
    \/ WriteJson \/ WriteJsonRaises
    \/ WriteExcel \/ WriteExcelRaises

Controller == Run \/ Polling \/ Reporting \/ Export \/ Stop

Next == Construct \/ Listener \/ Request \/ Coordinator \/ Controller

\* Every behaviour of the program.
Spec == Init /\ [][Next]_vars

\* Construction alone.
SpecBoot == Init /\ [][Construct]_vars

\* Construction and the poll loop: the driver does not call stop().
SpecRun == Init /\ [][Construct \/ Listener \/ Coordinator \/ Run \/ Polling]_vars

\* Construction and shutdown: no request reaches the listener and the driver
\* does not poll.
SpecStop == Init /\ [][Construct \/ Coordinator \/ Run \/ Reporting \/ Stop]_vars

\* Construction and the stats operations: the driver neither polls the queue nor
\* calls stop().
SpecReport ==
    Init /\ [][Construct \/ Coordinator \/ Run \/ Reporting \/ Export \/ TakeResult]_vars

\* Construction, requests, the poll loop and shutdown: the coordinator's clock
\* and the stats operations are left out.
SpecLife == Init /\ [][Construct \/ Listener \/ Polling \/ Stop]_vars

\* Construction, raw requests routed through the URL rule, and the poll loop.
SpecListener == Init /\ [][Construct \/ Request \/ Polling]_vars

\* SpecRun with the controller's thread going on from one statement of
\* process_queue() to the next.
SpecRunFair ==
    SpecRun /\ WF_vars(ProcessQueueCreateTaxis) /\ WF_vars(ProcessQueueCreatePassengers)

TypeOK ==
    /\ pc \in {"config", "user_db", "xmpp_server", "platform", "coordinator", "route",
               "batch", "scenario", "listener", "aborted", "idle",
               "is_simulation_finished", "returned", "process_queue", "create_taxis",
               "create_passengers", "get", "stop"}
    /\ command_queue \in Seq(Commands \cup (Nat \X Nat))
    /\ http_status \in {"none", "200", "404"}
    /\ Len(enqueued) <= MaxCmds
    /\ sim_time \in 0..MaxSimTime
    /\ ret \in {"none", "None", "True", "False", "AttributeError",
                "(None, None, None)", "(df_avg, passenger_df, taxi_df)"}
    /\ si \in 0..Len(TeardownOrder)
    /\ stop_calls \in 0..MaxStops

\* ================================================================ claims
IsPrefix(a, b) == Len(a) <= Len(b) /\ SubSeq(b, 1, Len(a)) = a

\* The factory calls that applying the commands of cs, in order, makes.
RECURSIVE CallsFor(_)
CallsFor(cs) ==
    IF cs = <<>> THEN <<>>
    ELSE <<(<<"taxi", Head(cs)[1]>>), (<<"passenger", Head(cs)[2]>>)>> \o CallsFor(Tail(cs))

\* is_simulation_finished() returns in this step.
IsFinishedReturns == pc = "is_simulation_finished" /\ pc' = "returned"

\* C1: with no max_time configured, is_simulation_finished() returns what the
\* coordinator's is_simulation_finished() reports at that moment.
C1_ReturnsCoordinatorFlag ==
    [][(IsFinishedReturns /\ config.max_time = NoMaxTime)
          => ret' = PyBool(coord_finished)]_vars

\* C2: with max_time = T configured, is_simulation_finished() returns true exactly
\* when the coordinator's elapsed time is greater than T or the coordinator
\* reports finished.
C2_MaxTimeOrCoordinator ==
    [][(IsFinishedReturns /\ config.max_time # NoMaxTime)
          => \A T \in config.max_time :
                ret' = PyBool(sim_time > T \/ coord_finished)]_vars

\* C2 witness: the call returned true on elapsed time alone, the coordinator not
\* reporting finished.
C2_Witness ==
    /\ pc = "returned" /\ ret = "True"
    /\ config.max_time # NoMaxTime
    /\ ~coord_finished

\* C3: the commands taken by process_queue() so far, followed by those still
\* queued, are the commands put, in put order; and the factory was called once per
\* taken command, in that order, after the initial batch (the calls for the
\* command in hand being under way).
C3_FifoExactlyOnce ==
    /\ enqueued = applied \o command_queue
    /\ factory_calls # <<>> =>
          LET expected == <<(<<"taxi", config.fleet[1]>>),
                            (<<"passenger", config.fleet[2]>>)>> \o CallsFor(applied)
          IN  /\ IsPrefix(factory_calls, expected)
              /\ cur = <<>> => factory_calls = expected

\* C3 witness: two different commands were put and both were applied.
C3_Witness ==
    /\ Len(applied) = 2 /\ applied[1] # applied[2]
    /\ command_queue = <<>>
    /\ pc = "returned"

\* C4: process_queue() that finds the queue empty returns at once and changes
\* neither the queue nor the fleet nor the factory's call history; and it never
\* waits in get() on an empty queue.
C4_EmptyQueueNoEffect ==
    /\ [][(pc = "process_queue" /\ command_queue = <<>> /\ pc' # pc)
             => /\ pc' = "returned"
                /\ UNCHANGED <<command_queue, applied, factory_calls, taxis, passengers>>]_vars
    /\ [](pc = "get" => command_queue # <<>>)

\* C4 witness: process_queue() has returned without applying anything while a
\* command put during the call is in the queue.
C4_Witness ==
    /\ pc = "returned" /\ ret = "None"
    /\ applied = <<>>
    /\ command_queue # <<>>

\* C5: the step of process_queue() that takes a command removes the head of the
\* queue only; the call then asks the factory for that command's taxi count and
\* for its passenger count, and takes nothing more from the queue; the test before
\* it changes nothing.
C5_OneCommandPerCall ==
    /\ [][(pc = "get" /\ pc' # pc)
             => /\ command_queue # <<>>
                /\ command_queue' = Tail(command_queue)
                /\ cur' = <<Head(command_queue)>>
                /\ UNCHANGED <<factory_calls, taxis, passengers>>]_vars
    /\ [][(pc = "create_taxis" /\ pc' # pc)
             => /\ factory_calls' = Append(factory_calls, <<"taxi", cur[1][1]>>)
                /\ taxis' = taxis + cur[1][1]
                /\ UNCHANGED <<command_queue, cur, passengers>>]_vars
    /\ [][(pc = "create_passengers" /\ pc' # pc)
             => /\ factory_calls' = Append(factory_calls, <<"passenger", cur[1][2]>>)
                /\ passengers' = passengers + cur[1][2]
                /\ UNCHANGED <<command_queue, taxis>>
                /\ pc' = "returned"]_vars
    /\ [][(pc = "process_queue" /\ pc' # pc)
             => UNCHANGED <<command_queue, factory_calls, taxis, passengers>>]_vars

\* C5 witness: one call applied (2, 1) and left the later command queued.
C5_Witness ==
    /\ pc = "returned" /\ ret = "None"
    /\ applied = <<(<<2, 1>>)>>
    /\ command_queue = <<(<<0, 3>>)>>
    /\ factory_calls[Len(factory_calls) - 1] = <<"taxi", 2>>
    /\ factory_calls[Len(factory_calls)] = <<"passenger", 1>>

\* C6: once stop() has run to its end, a further call carries out no teardown
\* action and leaves every component as it is.
C6_StopIdempotent ==
    [][stopped => (done' = done /\ infra' = infra)]_vars

\* C7: every call of stop() that has ended went through all seven teardown steps
\* and left the controller stopped, whether or not one of them failed.
C7_StopBestEffort ==
    (pc = "idle" /\ stop_calls > 0)
        => (stopped /\ Len(trace) = 7)

\* C8: a call of stop() makes its teardown calls in the order terminate listener,
\* stop agents, print stats, stop route agent, stop coordinator, shut down
\* platform, shut down XMPP server; when it reads the stats the coordinator is
\* not yet stopped; the XMPP server is shut down only after everything else.
C8_TeardownOrder ==
    /\ IsPrefix(trace, <<"terminate", "stop_agents", "print_stats", "route_stop",
                         "coord_stop", "platform_shutdown", "xmpp_shutdown">>)
    /\ (pc = "stop" /\ Len(trace) = 2 /\ df_avg = {}) => coordinator_agent = "running"
    /\ xmpp_server = "shutdown" =>
          /\ web_backend_process = "terminated"
          /\ agents_stopped
          /\ df_avg # {}
          /\ route_agent = "stopped"
          /\ coordinator_agent = "stopped"
          /\ platform = "shutdown"

\* C8 witness: a call of stop() ran through all seven steps.
C8_Witness ==
    /\ stopped /\ pc = "idle"
    /\ Len(trace) = 7
    /\ xmpp_server = "shutdown"

\* The bootstrap steps whose failure the construction cannot survive.
MandatorySteps == {"config", "user_db", "xmpp_server", "platform", "coordinator", "route"}

\* C9: once a mandatory bootstrap step has failed, construction is aborted at that step:
\* no later step has begun, no agent was created and the listener is not started.
C9_BootstrapFailureAborts ==
    boot_failed \cap MandatorySteps # {}
        => /\ pc = "aborted"
           /\ boot_log[Len(boot_log)] \in boot_failed
           /\ factory_calls = <<>>
           /\ web_backend_process = "none"

\* C10: after construction has aborted, nothing that was started is running.
C10_NothingLeftRunning ==
    pc = "aborted"
        => /\ xmpp_server # "running"
           /\ platform # "running"
           /\ coordinator_agent # "running"
           /\ route_agent # "running"

\* C11: a failure while loading the scenario does not abort construction: the
\* listener is still started and the controller becomes Running.
C11_ScenarioFailureSurvived ==
    "scenario" \in boot_failed => pc \in {"listener", "idle"}

\* C13: with no scenario configured, once the initial batch is done the factory
\* has been asked for exactly num_taxis taxis and num_passengers passengers, the
\* coordinator holds exactly that fleet, and the listener is started only then.
C13_InitialFleetRegistered ==
    /\ (~config.scenario /\ pc \in {"scenario", "listener", "idle"})
          => /\ factory_calls = <<(<<"taxi", config.fleet[1]>>),
                                  (<<"passenger", config.fleet[2]>>)>>
             /\ taxis = config.fleet[1]
             /\ passengers = config.fleet[2]
    /\ web_backend_process # "none" => (pc = "idle" /\ Len(factory_calls) = 2)

\* C13 witness: construction with (3, 5) and no scenario has ended.
C13_Witness ==
    /\ pc = "idle" /\ ~config.scenario /\ boot_failed = {}
    /\ web_backend_process = "running"
    /\ config.fleet = <<3, 5>>
    /\ taxis = 3 /\ passengers = 5

\* C15: the bootstrap steps begin in the order config, user db, XMPP server,
\* platform, coordinator, route agent, initial batch, scenario, listener; agents
\* exist only once the coordinator runs; a command is enqueued only once the
\* initial fleet exists and the listener runs.
C15_BootstrapOrder ==
    /\ IsPrefix(boot_log, <<"config", "user_db", "xmpp_server", "platform", "coordinator",
                            "route", "batch", "scenario", "listener">>)
    /\ (factory_calls # <<>> \/ taxis + passengers > 0) => coordinator_agent = "running"
    /\ enqueued # <<>> => (Len(factory_calls) >= 2 /\ web_backend_process = "running")

\* C15 witness: construction ran through all nine steps and a command was put.
C15_Witness ==
    /\ Len(boot_log) = 9 /\ boot_log[9] = "listener"
    /\ enqueued # <<>>

\* C18: the stats stop() prints are a snapshot computed in that call: after its
\* print step self.df_avg is the snapshot of the state at that step.
C18_StopPrintsFreshSnapshot ==
    [][(pc = "stop" /\ done'["print_stats"] # done["print_stats"])
          => df_avg' = {Snapshot}]_vars

\* C19: whenever collect_stats() stores a snapshot, its simulation-time value is
\* the coordinator's elapsed time at that moment.
C19_SnapshotTimeIsElapsedTime ==
    [][df_avg' # df_avg => \A row \in df_avg' : row.time = sim_time]_vars

\* C12: a stats or report operation (they are the calls that return straight
\* from idle) leaves a snapshot in place and neither returns an absent snapshot
\* nor fails for want of one.
C12_ReportsMaterializeSnapshot ==
    [][(pc = "idle" /\ pc' = "returned")
          => /\ df_avg' # {}
             /\ ret' \notin {"(None, None, None)", "AttributeError"}]_vars

\* C17: while process_queue() holds a command it only creates that command's
\* taxis and then its passengers: nothing else is taken from the queue and the
\* controller does nothing else in between; and once the taxis of a command are
\* created its passengers are created too.
C17_CommandAppliedWhole ==
    /\ [][(cur # <<>> /\ pc' # pc)
             => /\ UNCHANGED <<command_queue, applied, infra, stopv, stats>>
                /\ \/ /\ pc = "create_taxis" /\ pc' = "create_passengers"
                      /\ taxis' = taxis + cur[1][1]
                      /\ cur' = cur
                   \/ /\ pc = "create_passengers" /\ pc' = "returned"
                      /\ passengers' = passengers + cur[1][2]
                      /\ cur' = <<>>]_vars
    /\ (pc = "create_passengers") ~> (pc = "returned")

\* C17 witness: the taxis of (2, 1) are created, its passenger is not yet, and a
\* later command waits in the queue.
C17_Witness ==
    /\ pc = "create_passengers"
    /\ cur = <<(<<2, 1>>)>>
    /\ factory_calls[Len(factory_calls)] = <<"taxi", 2>>
    /\ command_queue # <<>>

\* C16: once stop() has run to its end, process_queue() takes no command from
\* the queue and creates no agents.
C16_NoEffectAfterStop ==
    [][stopped => UNCHANGED <<command_queue, applied, factory_calls, taxis, passengers>>]_vars

\* C20: when stop() has run to its end, no command is left in the queue.
C20_QueueDrainedAtStop ==
    stopped => command_queue = <<>>

\* C20 as amended: stop() neither takes nor discards queued commands; when it has
\* run to its end, the commands process_queue() had not taken are still in the
\* queue, in put order, unapplied.
C20_StopLeavesQueue ==
    /\ [][(pc = "stop" /\ (si' # si \/ pc' # pc))
             => UNCHANGED <<command_queue, applied, factory_calls>>]_vars
    /\ [](stopped => enqueued = applied \o command_queue)

\* C20 witness: stop() has run to its end and a command is still queued.
C20_Witness ==
    /\ stopped /\ pc = "idle"
    /\ command_queue # <<>>
    /\ web_backend_process = "terminated"

\* C14: every command on the command queue is a pair of non-negative integers;
\* a request the listener accepts enqueues exactly one command, and a request
\* it rejects (a negative or non-integer count) enqueues nothing.
C14_QueueHoldsNaturalPairs ==
    /\ [](\A i \in 1..Len(enqueued) : enqueued[i] \in Nat \X Nat)
    /\ [](\A i \in 1..Len(command_queue) : command_queue[i] \in Nat \X Nat)
    /\ [][(http_status' = "404" /\ http_status # "404")
            => UNCHANGED <<command_queue, enqueued>>]_vars
    /\ [][enqueued' # enqueued
            => /\ http_status' = "200"
               /\ Len(enqueued') = Len(enqueued) + 1
               /\ SubSeq(enqueued', 1, Len(enqueued)) = enqueued
               /\ command_queue' = Append(command_queue, enqueued'[Len(enqueued')])]_vars
    /\ [][Len(command_queue') > Len(command_queue) => enqueued' # enqueued]_vars

\* A well-formed request was enqueued and a later malformed one was rejected.
C14_Witness ==
    /\ http_status = "404"
    /\ enqueued # <<>>
    /\ command_queue = enqueued

====
